---- MODULE Spec2Model ----
(***************************************************************************)
(* A model of the deployment manager of src/server.go: the registry        *)
(* (readConfig / writeConfig), the port allocator (findUnusedPort), the    *)
(* orchestration of ServerImpl.Run and the health checker                  *)
(* (waitForAppToStart), together with their environment: the registry file *)
(* on disk, the TCP listeners of the host, the launched processes and the  *)
(* clock.  Each action is one step of the code at the granularity of one   *)
(* system call or one access to memory shared between Run invocations.     *)
(* Time is counted in ticks of 100 ms.                                     *)
(***************************************************************************)
EXTENDS Integers, Sequences, FiniteSets, TLC

\* ------------------------------------------------------------- bounds

\* How many Run invocations the front end makes in one behaviour.
MaxRuns == 2

\* How many candidate ports of the range [8001, 8100) the model scans.
NumPorts == 2

\* Up to how many health-check attempts of a Run the model counts when it
\* keeps the clock exactly.
MaxCounted == 2

\* How many seconds the local clock advances in one behaviour.
MaxTicks == 3

\* How many NewDeployDir calls the front end makes in one behaviour.
MaxCalls == 3

\* ------------------------------------------------- program constants

\* for i := 8001; i < 8100; i++
FirstPort == 8001
LimitPort == 8100

\* MAX_STARTUP_TIME = 1 s, MAX_HEALTH_CHECK_TIME = 2 s,
\* STARTUP_HEALTH_CHECK_INTERVAL = 100 ms, in ticks of 100 ms.
MAX_STARTUP_TIME == 10
MAX_HEALTH_CHECK_TIME == 20
STARTUP_HEALTH_CHECK_INTERVAL == 1

\* Deploy.Port of a deploy that is reported as not running.
NotRunningPort == -1

\* --------------------------------------------------------- the domain

Min(a, b) == IF a < b THEN a ELSE b
Max(a, b) == IF a < b THEN b ELSE a

\* The upper limit of the scan: the code's 8100, cut to NumPorts candidates.
ScanLimit == Min(LimitPort, FirstPort + NumPorts)
Ports == FirstPort .. (ScanLimit - 1)

\* The manager instances (ServerImpl values) that share one root directory.
Managers == {"m1", "m2"}

\* The deploy ids the front end passes to Run.
DeployIds == {"d1", "d22"}

RunIds == 1 .. MaxRuns

\* The empty Go map.
EmptyMap == [k \in {} |-> ""]

\* The deploy ids in the order of their names, the order of ioutil.ReadDir.
DeployOrder == <<"d1", "d22">>

\* Clock readings just before the minute, the hour and the day change.
LastSecondOfMinute == 59
LastSecondOfHour == 3599
LastSecondOfDay == 86399
WallStarts == {LastSecondOfMinute, LastSecondOfHour, LastSecondOfDay}

\* ------------------------------------------------------ JSON encoding

\* strconv.Itoa as encoding/json writes an integer map key: the decimal
\* digits, most significant first.
RECURSIVE Itoa(_)
Itoa(n) == IF n < 10 THEN <<n>> ELSE Append(Itoa(n \div 10), n % 10)

\* strconv.ParseInt as encoding/json reads an integer map key.
RECURSIVE Atoi(_)
Atoi(s) == IF Len(s) = 0 THEN 0
           ELSE 10 * Atoi(SubSeq(s, 1, Len(s) - 1)) + s[Len(s)]

\* json.Marshal of a Config: the Ports map is written with string keys.
Marshal(cfg) ==
    [Ports  |-> [k \in {Itoa(p) : p \in DOMAIN cfg.Ports} |-> cfg.Ports[Atoi(k)]],
     Labels |-> cfg.Labels]

\* Unmarshal that does not fill the Labels field (a field name the decoder
\* does not match).
Unmarshal_DropsLabels(doc) ==
    [Ports  |-> [p \in {Atoi(k) : k \in DOMAIN doc.Ports} |-> doc.Ports[Itoa(p)]],
     Labels |-> EmptyMap]

\* json.Unmarshal into a Config: the string keys are parsed back to integers.
Unmarshal(doc) ==
    [Ports  |-> [p \in {Atoi(k) : k \in DOMAIN doc.Ports} |-> doc.Ports[Itoa(p)]],
     Labels |-> doc.Labels]

RECURSIVE SumOver(_, _)
SumOver(f, S) == IF S = {} THEN 0
                 ELSE LET x == CHOOSE y \in S : TRUE
                      IN  f[x] + SumOver(f, S \ {x})

\* The number of bytes json.Marshal produces:
\* {"Ports":{"8001":"d1","8002":"d22"},"Labels":{}}
MapLen(m, keyLen) ==
    LET n == Cardinality(DOMAIN m)
    IN  2 + SumOver([k \in DOMAIN m |-> keyLen[k] + Len(m[k]) + 5], DOMAIN m)
          + (IF n > 1 THEN n - 1 ELSE 0)
DocLen(doc) ==
    20 + MapLen(doc.Ports, [k \in DOMAIN doc.Ports |-> Len(k)])
       + MapLen(doc.Labels, [k \in DOMAIN doc.Labels |-> Len(k)])

\* ----------------------------------------------------- the file system

\* The content of <root>/config.json: absent, a JSON document, or bytes that
\* are not a JSON document (an empty file, or a document followed by the
\* tail of a longer one).  len is the size of the file in bytes.
AbsentFile == [kind |-> "absent", len |-> 0, doc |-> Marshal([Ports |-> EmptyMap, Labels |-> EmptyMap])]
JsonFile(doc) == [kind |-> "json", len |-> DocLen(doc), doc |-> doc]
BadFile(n) == [kind |-> "bad", len |-> n, doc |-> Marshal([Ports |-> EmptyMap, Labels |-> EmptyMap])]

\* os.OpenFile(O_WRONLY|O_CREATE|O_TRUNC) of ioutil.WriteFile.
Truncate(f) == BadFile(0)

\* One write(2) of the whole document at offset 0 of the opened file: the
\* bytes beyond the document's end, left there by a writer that wrote after
\* this one truncated, stay.
Overwrite(f, doc) ==
    IF f.len <= DocLen(doc) THEN JsonFile(doc) ELSE BadFile(f.len)

\* ---------------------------------------------------------- the state

VARIABLES
    limit,      \* the number of Run invocations the front end makes in all
    quantum,    \* the resolution, in ticks, at which clock readings are kept
    counted,    \* up to how many health-check attempts of a Run are counted
    file,       \* the content of <root>/config.json
    config,     \* config[m]: the ServerImpl m, its *Config when constructed
    ext,        \* the ports on which a process the manager did not launch accepts
    proc,       \* proc[r]: the process Run r launched and the port in its command
    ncalls,     \* the number of Run invocations made so far
    mgr,        \* mgr[r]: the ServerImpl on which Run r was invoked
    dep,        \* dep[r]: the deployId argument of Run r
    pc,         \* pc[r]: where Run invocation r stands
    port,       \* port[r]: the loop variable i of findUnusedPort, then Run's port
    accepted,   \* accepted[r]: the candidates on which r's net.Dial connected
    data,       \* data[r]: the bytes writeConfig marshalled and has still to write
    persisted,  \* persisted[r]: what r's writeConfig returned: none, ok, error
    elapsed,    \* elapsed[r]: the clock, in ticks since waitForAppToStart set end
    attempts,   \* attempts[r]: the client.Get calls r has made, up to counted
    last,       \* last[r]: the port and the outcome of this iteration's client.Get
    result,     \* result[r]: what Run r returned
    steps,      \* steps[r]: the calls Run r has made, in order
    deploys,    \* the directory <root>/deploys: whether it exists, and its entries
    listed,     \* what the last call of ListDeploys returned
    wall,       \* the local clock, in seconds since the start of the base day
    made        \* the responses of the NewDeployDir calls, with their clock readings

vars == <<limit, quantum, counted, file, config, ext, proc, ncalls, mgr, dep, pc,
          port, accepted, data, persisted, elapsed, attempts, last, result, steps,
          deploys, listed, wall, made>>

scenario == <<limit, quantum, counted>>
calls == <<ncalls, mgr, dep>>
runVars == <<pc, port, accepted, data, persisted, elapsed, last, result, steps>>
front == <<deploys, listed, wall, made>>

NoConfig == [state |-> "none", Ports |-> EmptyMap, Labels |-> EmptyMap]
NoData == Marshal(NoConfig)
NoProcess == [state |-> "none", port |-> 0]
NoResponse == [port |-> 0, kind |-> "none", err |-> FALSE, status |-> 0]
NoResult == [kind |-> "none", code |-> 0]
NoDeploys == [exists |-> FALSE, names |-> {}]
NoListing == [called |-> FALSE, err |-> FALSE, result |-> <<>>]
Returned(kind, code) == [kind |-> kind, code |-> code]

\* Something accepts TCP connections on 127.0.0.1:q.
Listening(q) ==
    \/ q \in ext
    \/ \E r \in RunIds : proc[r].state = "listening" /\ proc[r].port = q

InFlight(r) == pc[r] \notin {"idle", "done", "killed"}

\* The state of the host before any manager is started.
Idle ==
    /\ file = AbsentFile
    /\ config = [m \in Managers |-> NoConfig]
    /\ ext = {}
    /\ proc = [r \in RunIds |-> NoProcess]
    /\ ncalls = 0
    /\ mgr = [r \in RunIds |-> "m1"]
    /\ dep = [r \in RunIds |-> "d1"]
    /\ pc = [r \in RunIds |-> "idle"]
    /\ port = [r \in RunIds |-> 0]
    /\ accepted = [r \in RunIds |-> {}]
    /\ data = [r \in RunIds |-> NoData]
    /\ persisted = [r \in RunIds |-> "none"]
    /\ elapsed = [r \in RunIds |-> 0]
    /\ attempts = [r \in RunIds |-> 0]
    /\ last = [r \in RunIds |-> NoResponse]
    /\ result = [r \in RunIds |-> NoResult]
    /\ steps = [r \in RunIds |-> <<>>]
    /\ deploys = NoDeploys
    /\ listed = NoListing
    /\ wall \in WallStarts
    /\ made = <<>>

\* Concurrent Run invocations; the clock is kept at the resolution that still
\* decides every comparison with the deadline exactly.
Init ==
    /\ Idle
    /\ wall = LastSecondOfMinute
    /\ limit = MaxRuns
    /\ quantum = MAX_STARTUP_TIME + 1
    /\ counted = 0

\* One Run invocation, with the clock kept exactly.
InitTimed ==
    /\ Idle
    /\ wall = LastSecondOfMinute
    /\ limit = 1
    /\ quantum = 1
    /\ counted = MaxCounted

\* ------------------------------------------------------- the registry

\* readConfig with json.Unmarshal's error dropped: the maps made before the
\* read are returned for a file that is not JSON.
readConfig_IgnoresParseError(f) ==
    IF f.kind = "json"
    THEN [err |-> FALSE, Ports |-> Unmarshal(f.doc).Ports,
          Labels |-> Unmarshal(f.doc).Labels]
    ELSE [err |-> FALSE, Ports |-> EmptyMap, Labels |-> EmptyMap]

\* readConfig: a file that cannot be read yields the empty maps, a file that
\* is read and is not JSON yields the error of json.Unmarshal.
readConfig(f) ==
    IF f.kind = "absent"
    THEN [err |-> FALSE, Ports |-> EmptyMap, Labels |-> EmptyMap]
    ELSE IF f.kind = "bad"
    THEN [err |-> TRUE, Ports |-> EmptyMap, Labels |-> EmptyMap]
    ELSE [err |-> FALSE, Ports |-> Unmarshal(f.doc).Ports,
          Labels |-> Unmarshal(f.doc).Labels]

\* NewServerImpl(root): a manager process starts on the root.  When
\* readConfig fails it returns the error and there is no ServerImpl.
NewServerImpl(m) ==
    /\ config[m].state = "none"
    /\ LET c == readConfig(file)
       IN  config' = [config EXCEPT ![m] =
               IF c.err THEN NoConfig
               ELSE [state |-> "up", Ports |-> c.Ports, Labels |-> c.Labels]]
    /\ UNCHANGED <<scenario, front, attempts, file, ext, proc, calls, runVars>>

\* --------------------------------------------------- the port allocator

\* Run is called on manager m with deployId d: findUnusedPort starts its loop.
\* The manager instances being alike, m1 names the one called first.
RunCall(m, d) ==
    /\ ncalls < limit
    /\ config[m].state = "up"
    /\ ncalls = 0 => m = "m1"
    /\ LET r == ncalls + 1
       IN  /\ ncalls' = r
           /\ mgr' = [mgr EXCEPT ![r] = m]
           /\ dep' = [dep EXCEPT ![r] = d]
           /\ pc' = [pc EXCEPT ![r] = "scan"]
           /\ port' = [port EXCEPT ![r] = FirstPort]
           /\ steps' = [steps EXCEPT ![r] = <<"findUnusedPort">>]
    /\ UNCHANGED <<scenario, front, attempts, file, config, ext, proc, accepted,
                   data, persisted, elapsed, last, result>>

\* findUnusedPort with the loop's bound off by one, i <= 8100 for i < 8100.
findUnusedPort_OffByOne(i, connected) ==
    IF ~connected THEN [pc |-> "manifest", port |-> i, result |-> NoResult]
    ELSE IF i + 1 <= ScanLimit THEN [pc |-> "scan", port |-> i + 1, result |-> NoResult]
    ELSE [pc |-> "done", port |-> NotRunningPort, result |-> Returned("NoFreePort", 0)]

\* findUnusedPort with the test of net.Dial's error inverted, err == nil for
\* err != nil: the port returned is the first one that accepts.
findUnusedPort_Inverted(i, connected) ==
    IF connected THEN [pc |-> "manifest", port |-> i, result |-> NoResult]
    ELSE IF i + 1 < ScanLimit THEN [pc |-> "scan", port |-> i + 1, result |-> NoResult]
    ELSE [pc |-> "done", port |-> NotRunningPort, result |-> Returned("NoFreePort", 0)]

\* One iteration of findUnusedPort's loop with loop variable i, given whether
\* net.Dial connected: the port returned, or the next iteration, or the error
\* after the last candidate.
findUnusedPort(i, connected) ==
    IF ~connected THEN [pc |-> "manifest", port |-> i, result |-> NoResult]
    ELSE IF i + 1 < ScanLimit THEN [pc |-> "scan", port |-> i + 1, result |-> NoResult]
    ELSE [pc |-> "done", port |-> NotRunningPort, result |-> Returned("NoFreePort", 0)]

\* One net.Dial of findUnusedPort, and conn.Close() when it connected.
Probe(r) ==
    /\ pc[r] = "scan"
    /\ LET connected == Listening(port[r])
           s == findUnusedPort(port[r], connected)
       IN  /\ pc' = [pc EXCEPT ![r] = s.pc]
           /\ port' = [port EXCEPT ![r] = s.port]
           /\ result' = [result EXCEPT ![r] = s.result]
           /\ accepted' = [accepted EXCEPT ![r] =
                              IF connected THEN @ \cup {port[r]} ELSE @]
    /\ UNCHANGED <<scenario, front, attempts, file, config, ext, proc, calls,
                   data, persisted, elapsed, last, steps>>

\* ---------------------------------------------------------------- Run

\* ApplicationFromConfig(path): what resolving a manifest may yield, an
\* Application (TRUE) or an error (FALSE).  It reads the manifest and changes
\* nothing.
ApplicationFromConfig == BOOLEAN

\* ResolveManifest with the assignment of line 151 moved above the manifest's
\* error check: the port is in the registry when the manifest fails.
ResolveManifest_AssignFirst(r, ok) ==
    /\ pc[r] = "manifest"
    /\ config' = [config EXCEPT ![mgr[r]].Ports =
                     [q \in DOMAIN @ \cup {port[r]} |->
                         IF q = port[r] THEN dep[r] ELSE @[q]]]
    /\ pc' = [pc EXCEPT ![r] = IF ok THEN "assign" ELSE "done"]
    /\ result' = [result EXCEPT ![r] =
                     IF ok THEN NoResult ELSE Returned("ManifestError", 0)]
    /\ steps' = [steps EXCEPT ![r] = Append(@, "ApplicationFromConfig")]
    /\ UNCHANGED <<scenario, front, attempts, file, ext, proc, calls, port,
                   accepted, data, persisted, elapsed, last>>

\* app, err := ApplicationFromConfig(...); if err != nil { return err }
ResolveManifest(r, ok) ==
    /\ pc[r] = "manifest"
    /\ pc' = [pc EXCEPT ![r] = IF ok THEN "assign" ELSE "done"]
    /\ result' = [result EXCEPT ![r] =
                     IF ok THEN NoResult ELSE Returned("ManifestError", 0)]
    /\ steps' = [steps EXCEPT ![r] = Append(@, "ApplicationFromConfig")]
    /\ UNCHANGED <<scenario, front, attempts, file, config, ext, proc, calls,
                   port, accepted, data, persisted, elapsed, last>>

\* s.config.Ports[port] = deployId
\* The assignment made only when the port has no entry yet, the entry of an
\* earlier Run being kept.
SetPort_KeepFirst(cfg, p, d) ==
    [cfg EXCEPT !.Ports = [q \in DOMAIN cfg.Ports \cup {p} |->
                              IF q \in DOMAIN cfg.Ports THEN cfg.Ports[q] ELSE d]]

\* The assignment made into a fresh map: the entries of the other ports are
\* lost.
SetPort_FreshMap(cfg, p, d) ==
    [cfg EXCEPT !.Ports = [q \in {p} |-> d]]

SetPort(cfg, p, d) ==
    [cfg EXCEPT !.Ports = [q \in DOMAIN cfg.Ports \cup {p} |->
                              IF q = p THEN d ELSE cfg.Ports[q]]]

AssignPort(r) ==
    /\ pc[r] = "assign"
    /\ config' = [config EXCEPT ![mgr[r]] = SetPort(@, port[r], dep[r])]
    /\ pc' = [pc EXCEPT ![r] = "writeConfig"]
    /\ steps' = [steps EXCEPT ![r] = Append(@, "assign")]
    /\ UNCHANGED <<scenario, front, attempts, file, ext, proc, calls, port,
                   accepted, data, persisted, elapsed, last, result>>

\* writeConfig with its error checked by Run: when the file cannot be opened
\* Run returns the error instead of launching.
WriteConfigOpen_Checked(r, ok) ==
    /\ pc[r] = "writeConfig"
    /\ data' = [data EXCEPT ![r] = IF ok THEN Marshal(config[mgr[r]]) ELSE NoData]
    /\ file' = IF ok THEN Truncate(file) ELSE file
    /\ persisted' = [persisted EXCEPT ![r] = IF ok THEN "none" ELSE "error"]
    /\ pc' = [pc EXCEPT ![r] = IF ok THEN "write" ELSE "done"]
    /\ result' = [result EXCEPT ![r] =
                     IF ok THEN NoResult ELSE Returned("PersistError", 0)]
    /\ steps' = [steps EXCEPT ![r] = Append(@, "writeConfig")]
    /\ UNCHANGED <<scenario, front, attempts, config, ext, proc, calls, port,
                   accepted, elapsed, last>>

\* writeConfig called before the assignment of line 151 instead of after it:
\* the bytes written are the registry without this Run's port.
WriteConfigOpen_BeforeAssign(r, ok) ==
    /\ pc[r] = "writeConfig"
    /\ data' = [data EXCEPT ![r] =
                   IF ok
                   THEN Marshal([config[mgr[r]] EXCEPT !.Ports =
                                    [q \in DOMAIN @ \ {port[r]} |-> @[q]]])
                   ELSE NoData]
    /\ file' = IF ok THEN Truncate(file) ELSE file
    /\ persisted' = [persisted EXCEPT ![r] = IF ok THEN "none" ELSE "error"]
    /\ pc' = [pc EXCEPT ![r] = IF ok THEN "write" ELSE "start"]
    /\ steps' = [steps EXCEPT ![r] = Append(@, "writeConfig")]
    /\ UNCHANGED <<scenario, front, attempts, config, ext, proc, calls, port,
                   accepted, elapsed, last, result>>

\* writeConfig, first half: json.Marshal(s.config), then ioutil.WriteFile
\* opens the file, which truncates it.  When the open fails the file is left
\* as it was and writeConfig returns the error, which Run drops.
WriteConfigOpen(r, ok) ==
    /\ pc[r] = "writeConfig"
    /\ data' = [data EXCEPT ![r] = IF ok THEN Marshal(config[mgr[r]]) ELSE NoData]
    /\ file' = IF ok THEN Truncate(file) ELSE file
    /\ persisted' = [persisted EXCEPT ![r] = IF ok THEN "none" ELSE "error"]
    /\ pc' = [pc EXCEPT ![r] = IF ok THEN "write" ELSE "start"]
    /\ steps' = [steps EXCEPT ![r] = Append(@, "writeConfig")]
    /\ UNCHANGED <<scenario, front, attempts, config, ext, proc, calls, port,
                   accepted, elapsed, last, result>>

\* writeConfig, second half: ioutil.WriteFile writes the bytes and closes.
\* When the write fails nothing is written and the error is dropped as well.
WriteConfigWrite(r, ok) ==
    /\ pc[r] = "write"
    /\ file' = IF ok THEN Overwrite(file, data[r]) ELSE file
    /\ persisted' = [persisted EXCEPT ![r] = IF ok THEN "ok" ELSE "error"]
    /\ data' = [data EXCEPT ![r] = NoData]
    /\ pc' = [pc EXCEPT ![r] = "start"]
    /\ UNCHANGED <<scenario, front, attempts, config, ext, proc, calls, port,
                   accepted, elapsed, last, result, steps>>

\* StartProcess with the check of cmd.Start()'s error left out: Run goes on to
\* waitForAppToStart whether or not a process exists.
StartProcess_Unchecked(p, ok) ==
    [pc |-> "poll",
     proc |-> IF ok THEN [state |-> "started", port |-> p] ELSE NoProcess,
     result |-> NoResult]

\* cmd := exec.Command("sh", "-c", app.RunCmd(port)); err = cmd.Start(): the
\* process started for port p, or none and the error Run returns at once.
\* After a start Run enters waitForAppToStart.
StartProcess(p, ok) ==
    IF ok THEN [pc |-> "poll", proc |-> [state |-> "started", port |-> p],
                result |-> NoResult]
    ELSE [pc |-> "done", proc |-> NoProcess, result |-> Returned("SpawnError", 0)]

\* Start with a rollback added: when cmd.Start() fails the port's entry is
\* deleted from the registry again.
Start_Rollback(r, ok) ==
    /\ pc[r] = "start"
    /\ LET s == StartProcess(port[r], ok)
       IN  /\ pc' = [pc EXCEPT ![r] = s.pc]
           /\ proc' = [proc EXCEPT ![r] = s.proc]
           /\ result' = [result EXCEPT ![r] = s.result]
           /\ steps' = [steps EXCEPT ![r] =
                           IF s.pc = "poll" THEN @ \o <<"Start", "waitForAppToStart">>
                           ELSE Append(@, "Start")]
    /\ config' = [config EXCEPT ![mgr[r]].Ports =
                     IF ok THEN @ ELSE [q \in DOMAIN @ \ {port[r]} |-> @[q]]]
    /\ elapsed' = [elapsed EXCEPT ![r] = 0]
    /\ UNCHANGED <<scenario, front, attempts, file, ext, calls, port, accepted,
                   data, persisted, last>>

\* The process is started in its own process group, or the start fails.  On
\* success waitForAppToStart reads the clock: end = now + MAX_STARTUP_TIME.
Start(r, ok) ==
    /\ pc[r] = "start"
    /\ LET s == StartProcess(port[r], ok)
       IN  /\ pc' = [pc EXCEPT ![r] = s.pc]
           /\ proc' = [proc EXCEPT ![r] = s.proc]
           /\ result' = [result EXCEPT ![r] = s.result]
           /\ steps' = [steps EXCEPT ![r] =
                           IF s.pc = "poll" THEN @ \o <<"Start", "waitForAppToStart">>
                           ELSE Append(@, "Start")]
    /\ elapsed' = [elapsed EXCEPT ![r] = 0]
    /\ UNCHANGED <<scenario, front, attempts, file, config, ext, calls, port,
                   accepted, data, persisted, last>>

\* ---------------------------------------------------- the health checker

\* What the process that accepted the connection does with the GET: it answers
\* with a status, answers with a redirect to another location, or never
\* answers.
Answers ==
    {[kind |-> "status", code |-> 200], [kind |-> "status", code |-> 500],
     [kind |-> "redirect", code |-> 302], [kind |-> "silent", code |-> 0]}

\* How long an answer takes, in ticks: at once, or just within the
\* client's Timeout.
AnswerTimes == {0, MAX_HEALTH_CHECK_TIME - 1}

\* Readings beyond Horizon, which no comparison of the code tells apart, are
\* kept as the last multiple of quantum up to Horizon.
Horizon == MAX_STARTUP_TIME + STARTUP_HEALTH_CHECK_INTERVAL + 1

\* The clock readings that d ticks after a reading e may give.  A reading is
\* kept rounded down to a multiple of quantum, so the time it stands for is
\* e .. e + quantum - 1 and the later reading is one of two multiples.  With
\* quantum = 1 it is exactly e + d; with quantum = MAX_STARTUP_TIME + 1 a
\* reading is 0 up to the deadline and larger after it.
Later(e, d) ==
    {Min(quantum * k, quantum * (Horizon \div quantum)) :
        k \in ((e + d) \div quantum) .. ((e + d + quantum - 1) \div quantum)}

\* The client's CheckRedirect returns an error for every redirect.
CheckRedirect == TRUE

\* client.Get with Timeout = MAX_HEALTH_CHECK_TIME: the error, the status of
\* the response and the ticks the call took.  A refused connection fails at
\* once, a request that is not answered fails when the Timeout expires, and a
\* redirect that CheckRedirect rejects comes back as an error.
ClientGet(listening, a, t) ==
    IF ~listening
    THEN [kind |-> "refused", err |-> TRUE, status |-> 0, took |-> 0]
    ELSE IF a.kind = "silent"
    THEN [kind |-> "timeout", err |-> TRUE, status |-> 0, took |-> MAX_HEALTH_CHECK_TIME]
    ELSE IF a.kind = "redirect"
    THEN [kind |-> "redirect", err |-> CheckRedirect, status |-> a.code, took |-> t]
    ELSE [kind |-> "status", err |-> FALSE, status |-> a.code, took |-> t]

\* waitForAppToStart with the test of resp.StatusCode left out: any response
\* that completes counts as healthy.
waitForAppToStart_AnyStatus(err, status, now) ==
    IF ~err THEN Returned("ok", 0)
    ELSE IF now > MAX_STARTUP_TIME THEN Returned("StartupTimeout", 0)
    ELSE Returned("retry", 0)

\* waitForAppToStart with a status other than 200 handled like an error of
\* client.Get: retried until the deadline.
waitForAppToStart_RetryStatus(err, status, now) ==
    IF ~err /\ status = 200 THEN Returned("ok", 0)
    ELSE IF now > MAX_STARTUP_TIME
    THEN (IF err THEN Returned("StartupTimeout", 0) ELSE Returned("BadStatus", status))
    ELSE Returned("retry", 0)

\* waitForAppToStart with the deadline test inverted, time.Now().Before(end)
\* for time.Now().After(end).
waitForAppToStart_Before(err, status, now) ==
    IF ~err
    THEN (IF status = 200 THEN Returned("ok", 0) ELSE Returned("BadStatus", status))
    ELSE IF now <= MAX_STARTUP_TIME THEN Returned("StartupTimeout", 0)
    ELSE Returned("retry", 0)

\* waitForAppToStart with the deadline tested before the response is looked
\* at: a response that arrives after the deadline counts as a timeout.
waitForAppToStart_DeadlineFirst(err, status, now) ==
    IF now > MAX_STARTUP_TIME THEN Returned("StartupTimeout", 0)
    ELSE IF err THEN Returned("retry", 0)
    ELSE IF status = 200 THEN Returned("ok", 0)
    ELSE Returned("BadStatus", status)

\* waitForAppToStart without the test of the deadline: every attempt that
\* fails is followed by the sleep and another attempt.
waitForAppToStart_NoDeadline(err, status, now) ==
    IF ~err
    THEN (IF status = 200 THEN Returned("ok", 0) ELSE Returned("BadStatus", status))
    ELSE Returned("retry", 0)

\* The body of waitForAppToStart's loop after client.Get returned, with the
\* clock at now ticks after end was computed: the value returned, or "retry"
\* for the sleep and the next iteration.
waitForAppToStart(err, status, now) ==
    IF ~err
    THEN (IF status = 200 THEN Returned("ok", 0) ELSE Returned("BadStatus", status))
    ELSE IF now > MAX_STARTUP_TIME THEN Returned("StartupTimeout", 0)
    ELSE Returned("retry", 0)

\* One iteration of the loop up to its return or its sleep.
HealthAttempt(r, a, t) ==
    /\ pc[r] = "poll"
    /\ LET g == ClientGet(Listening(port[r]), a, t)
       IN  \E now \in Later(elapsed[r], g.took) :
             LET out == waitForAppToStart(g.err, g.status, now)
             IN  /\ elapsed' = [elapsed EXCEPT ![r] = now]
                 /\ attempts' = [attempts EXCEPT ![r] = Min(@ + 1, counted)]
                 /\ last' = [last EXCEPT ![r] =
                                [port |-> port[r], kind |-> g.kind, err |-> g.err,
                                 status |-> g.status]]
                 /\ pc' = [pc EXCEPT ![r] = IF out.kind = "retry" THEN "sleep" ELSE "done"]
                 /\ result' = [result EXCEPT ![r] =
                                  IF out.kind = "retry" THEN NoResult ELSE out]
    /\ UNCHANGED <<scenario, front, file, config, ext, proc, calls, port,
                   accepted, data, persisted, steps>>

\* time.Sleep(STARTUP_HEALTH_CHECK_INTERVAL), and the next iteration begins.
HealthSleep(r) ==
    /\ pc[r] = "sleep"
    /\ \E now \in Later(elapsed[r], STARTUP_HEALTH_CHECK_INTERVAL) :
          elapsed' = [elapsed EXCEPT ![r] = now]
    /\ last' = [last EXCEPT ![r] = NoResponse]
    /\ pc' = [pc EXCEPT ![r] = "poll"]
    /\ UNCHANGED <<scenario, front, attempts, file, config, ext, proc, calls,
                   port, accepted, data, persisted, result, steps>>

\* ------------------------------------------------------- the deploy ids

\* The decimal digits fmt writes.
Digits == <<"0", "1", "2", "3", "4", "5", "6", "7", "8", "9">>

\* fmt's %d of a natural number.
RECURSIVE FormatD(_)
FormatD(n) == IF n < 10 THEN Digits[n + 1]
              ELSE FormatD(n \div 10) \o Digits[(n % 10) + 1]

\* fmt's %02d of a natural number: padded with a zero to two digits.
Format02D(n) == IF n < 10 THEN "0" \o FormatD(n) ELSE FormatD(n)

\* The day on which the model's clock starts.
BaseDate == [Year |-> 2014, Month |-> 3, Day |-> 9]

\* Fields with t.Minute() written a second time where t.Second() belongs.
Fields_MinuteTwice(w) ==
    [Year |-> BaseDate.Year, Month |-> BaseDate.Month,
     Day |-> BaseDate.Day + (w \div 86400),
     Hour |-> (w \div 3600) % 24, Minute |-> (w \div 60) % 60,
     Second |-> (w \div 60) % 60]

\* t.Year(), t.Month(), t.Day(), t.Hour(), t.Minute(), t.Second() of the local
\* clock reading w seconds after the start of the base day.
Fields(w) ==
    [Year |-> BaseDate.Year, Month |-> BaseDate.Month,
     Day |-> BaseDate.Day + (w \div 86400),
     Hour |-> (w \div 3600) % 24, Minute |-> (w \div 60) % 60,
     Second |-> w % 60]

\* fmt.Sprintf("%d-%02d-%02d-%02d-%02d-%02d", ...)
Timestamp(t) ==
    FormatD(t.Year) \o "-" \o Format02D(t.Month) \o "-" \o Format02D(t.Day) \o "-"
        \o Format02D(t.Hour) \o "-" \o Format02D(t.Minute) \o "-"
        \o Format02D(t.Second)

\* s.root, the same for the managers of one root, and deployPath.
Root == "root"
deployPath == "deploys"

\* path.Join of clean elements.
PathJoin(a, b, c) == a \o "/" \o b \o "/" \o c

\* The local clock advances by a second.
Tick ==
    /\ \E s \in WallStarts : s <= wall /\ wall < s + MaxTicks
    /\ wall' = wall + 1
    /\ UNCHANGED <<scenario, attempts, file, config, ext, proc, calls, runVars,
                   deploys, listed, made>>

\* NewDeployDir on manager m.
NewDeployDir(m) ==
    /\ config[m].state = "up"
    /\ Len(made) < MaxCalls
    /\ LET timestamp == Timestamp(Fields(wall))
       IN  made' = Append(made, [at |-> wall, DeployId |-> timestamp,
                                 Path |-> PathJoin(Root, deployPath, timestamp)])
    /\ UNCHANGED <<scenario, attempts, file, config, ext, proc, calls, runVars,
                   deploys, listed, wall>>

\* ---------------------------------------------------------- the deploys

\* A registry that an earlier manager process left in <root>/config.json.
Seeded == [Ports |-> [p \in {FirstPort} |-> "d0"], Labels |-> [l \in {"live"} |-> "d1"]]

\* The root directory holds that registry file before any manager starts.
Seed ==
    /\ file = AbsentFile
    /\ \A m \in Managers : config[m].state = "none"
    /\ file' = JsonFile(Marshal(Seeded))
    /\ UNCHANGED <<scenario, front, attempts, config, ext, proc, calls, runVars>>


\* A deploy directory appears under <root>/deploys (an upload, outside the
\* manager), which creates <root>/deploys with it.
MakeDeploy(d) ==
    /\ d \notin deploys.names
    /\ deploys' = [exists |-> TRUE, names |-> deploys.names \cup {d}]
    /\ UNCHANGED <<scenario, attempts, file, config, ext, proc, calls, runVars,
                   listed, wall, made>>

\* DeployOf with the port looked up in the registry of the managers.
DeployOf_FromRegistry(name) ==
    [Id |-> name, Note |-> "",
     Port |-> IF \E m \in Managers, p \in Ports :
                    p \in DOMAIN config[m].Ports /\ config[m].Ports[p] = name
              THEN CHOOSE p \in Ports : \E m \in Managers :
                    p \in DOMAIN config[m].Ports /\ config[m].Ports[p] = name
              ELSE NotRunningPort]

\* Deploy{Id: info.Name(), Port: -1}
DeployOf(name) == [Id |-> name, Note |-> "", Port |-> NotRunningPort]

\* ListDeploys on manager m: the error of ioutil.ReadDir, or one Deploy for
\* each entry of the directory, in the order of the names.
ListDeploys(m) ==
    /\ config[m].state = "up"
    /\ listed' =
          IF ~deploys.exists
          THEN [called |-> TRUE, err |-> TRUE, result |-> <<>>]
          ELSE LET names == SelectSeq(DeployOrder, LAMBDA d : d \in deploys.names)
               IN  [called |-> TRUE, err |-> FALSE,
                    result |-> [k \in 1 .. Len(names) |-> DeployOf(names[k])]]
    /\ UNCHANGED <<scenario, attempts, file, config, ext, proc, calls, runVars,
                   deploys, wall, made>>

\* ------------------------------------------------------ the environment

\* A process the manager did not launch binds a free port of the range.
ExtListen(q) ==
    /\ ~Listening(q)
    /\ ext' = ext \cup {q}
    /\ UNCHANGED <<scenario, front, attempts, file, config, proc, calls,
                   runVars>>

\* It closes its listener.
ExtClose(q) ==
    /\ q \in ext
    /\ ext' = ext \ {q}
    /\ UNCHANGED <<scenario, front, attempts, file, config, proc, calls,
                   runVars>>

\* The process Run r launched binds the port of its command.
ProcListen(r) ==
    /\ proc[r].state = "started"
    /\ ~Listening(proc[r].port)
    /\ proc' = [proc EXCEPT ![r].state = "listening"]
    /\ UNCHANGED <<scenario, front, attempts, file, config, ext, calls, runVars>>

\* The process Run r launched stops accepting: it closes its listener or
\* exits.  Nothing in the manager ends it.
ProcClose(r) ==
    /\ proc[r].state = "listening"
    /\ proc' = [proc EXCEPT ![r].state = "started"]
    /\ UNCHANGED <<scenario, front, attempts, file, config, ext, calls, runVars>>

\* Two Run invocations on one ServerImpl reach s.config.Ports at the same
\* time, one of them writing it (line 151) and the other writing it or
\* reading it in json.Marshal: a data race on a Go map.  Besides the two
\* orders of the accesses, which AssignPort and WriteConfigOpen give, the
\* runtime may detect it and end the manager process with a fatal error; the
\* processes it launched, in their own process groups, go on.
MapRaceFatal(m) ==
    /\ \E r1, r2 \in RunIds :
          /\ r1 # r2
          /\ mgr[r1] = m /\ mgr[r2] = m
          /\ pc[r1] = "assign"
          /\ pc[r2] \in {"assign", "writeConfig"}
    /\ config' = [config EXCEPT ![m] = NoConfig]
    /\ pc' = [r \in RunIds |-> IF mgr[r] = m /\ InFlight(r) THEN "killed" ELSE pc[r]]
    /\ data' = [r \in RunIds |-> IF mgr[r] = m /\ InFlight(r) THEN NoData ELSE data[r]]
    /\ elapsed' = [r \in RunIds |-> IF mgr[r] = m /\ InFlight(r) THEN 0 ELSE elapsed[r]]
    /\ last' = [r \in RunIds |->
                   IF mgr[r] = m /\ InFlight(r) THEN NoResponse ELSE last[r]]
    /\ UNCHANGED <<scenario, front, attempts, file, ext, proc, calls, port,
                   accepted, persisted, result, steps>>

\* ------------------------------------------------------ specification

Next ==
    \/ \E m \in Managers : NewServerImpl(m)
    \/ \E m \in Managers, d \in DeployIds : RunCall(m, d)
    \/ \E r \in RunIds : Probe(r)
    \/ \E r \in RunIds, ok \in ApplicationFromConfig : ResolveManifest(r, ok)
    \/ \E r \in RunIds : AssignPort(r)
    \/ \E r \in RunIds, ok \in BOOLEAN : WriteConfigOpen(r, ok)
    \/ \E r \in RunIds, ok \in BOOLEAN : WriteConfigWrite(r, ok)
    \/ \E r \in RunIds, ok \in BOOLEAN : Start(r, ok)
    \/ \E r \in RunIds, a \in Answers, t \in AnswerTimes : HealthAttempt(r, a, t)
    \/ \E r \in RunIds : HealthSleep(r)
    \/ \E q \in Ports : ExtListen(q)
    \/ \E q \in Ports : ExtClose(q)
    \/ \E r \in RunIds : ProcListen(r)
    \/ \E r \in RunIds : ProcClose(r)
    \/ \E m \in Managers : MapRaceFatal(m)

Spec == Init /\ [][Next]_vars

\* A single Run invocation has no other Run to race with.
NextTimed ==
    \/ \E m \in Managers : NewServerImpl(m)
    \/ \E m \in Managers, d \in DeployIds : RunCall(m, d)
    \/ \E r \in RunIds : Probe(r)
    \/ \E r \in RunIds, ok \in ApplicationFromConfig : ResolveManifest(r, ok)
    \/ \E r \in RunIds : AssignPort(r)
    \/ \E r \in RunIds, ok \in BOOLEAN : WriteConfigOpen(r, ok)
    \/ \E r \in RunIds, ok \in BOOLEAN : WriteConfigWrite(r, ok)
    \/ \E r \in RunIds, ok \in BOOLEAN : Start(r, ok)
    \/ \E r \in RunIds, a \in Answers, t \in AnswerTimes : HealthAttempt(r, a, t)
    \/ \E r \in RunIds : HealthSleep(r)
    \/ \E q \in Ports : ExtListen(q)
    \/ \E q \in Ports : ExtClose(q)
    \/ \E r \in RunIds : ProcListen(r)
    \/ \E r \in RunIds : ProcClose(r)

SpecTimed == InitTimed /\ [][NextTimed]_vars

\* The next step of Run invocation r, whatever its outcome.
RunStep(r) ==
    \/ Probe(r)
    \/ \E ok \in ApplicationFromConfig : ResolveManifest(r, ok)
    \/ AssignPort(r)
    \/ \E ok \in BOOLEAN : WriteConfigOpen(r, ok)
    \/ \E ok \in BOOLEAN : WriteConfigWrite(r, ok)
    \/ \E ok \in BOOLEAN : Start(r, ok)
    \/ \E a \in Answers, t \in AnswerTimes : HealthAttempt(r, a, t)
    \/ HealthSleep(r)

\* The goroutine of a Run invocation keeps being scheduled: each call it makes
\* returns (a dial, a file operation, the start of a process, a GET bounded
\* by the client's Timeout, a sleep) and the clock advances.
Progress == \A r \in RunIds : WF_vars(RunStep(r))

SpecLive == InitTimed /\ [][NextTimed]_vars /\ Progress

\* One Run invocation, and the front end listing the deploys.
InitDeploys ==
    /\ Idle
    /\ wall = LastSecondOfMinute
    /\ limit = 1
    /\ quantum = MAX_STARTUP_TIME + 1
    /\ counted = 0

NextDeploys ==
    \/ NextTimed
    \/ \E d \in DeployIds : MakeDeploy(d)
    \/ \E m \in Managers : ListDeploys(m)

SpecDeploys == InitDeploys /\ [][NextDeploys]_vars

\* One Run invocation by managers that may find a registry file at start.
NextReload ==
    \/ NextTimed
    \/ Seed

SpecReload == InitDeploys /\ [][NextReload]_vars

\* Every implemented operation, on managers that may find a registry file at
\* start.
NextFrame ==
    \/ NextReload
    \/ \E m \in Managers : ListDeploys(m)
    \/ \E m \in Managers : NewDeployDir(m)

SpecFrame == InitDeploys /\ [][NextFrame]_vars

\* The front end asking for deploy directories as the local clock advances.
InitClock ==
    /\ Idle
    /\ limit = 1
    /\ quantum = MAX_STARTUP_TIME + 1
    /\ counted = 0

NextClock ==
    \/ \E m \in Managers : NewServerImpl(m)
    \/ Tick
    \/ \E m \in Managers : NewDeployDir(m)

SpecClock == InitClock /\ [][NextClock]_vars

\* ------------------------------------------------------------- claims

\* The errors Run returns.
RunErrors == {"NoFreePort", "ManifestError", "SpawnError", "BadStatus", "StartupTimeout"}

Healthy(p) == [port |-> p, kind |-> "status", err |-> FALSE, status |-> 200]

\* C1: Run returns success only if a process was launched for the allocated
\* port and a health-check attempt against that same port completed with
\* status 200; every other Run that returns, returns an error.
C1_SuccessOnlyIfHealthy ==
    \A r \in RunIds :
        pc[r] = "done" =>
            /\ result[r].kind \in {"ok"} \cup RunErrors
            /\ result[r].kind = "ok" <=>
                   /\ proc[r].state # "none"
                   /\ proc[r].port = port[r]
                   /\ port[r] \in Ports
                   /\ last[r] = Healthy(port[r])

C1_Witness ==
    \E r \in RunIds :
        /\ pc[r] = "done"
        /\ result[r].kind = "ok"
        /\ proc[r].port = port[r]
        /\ last[r] = Healthy(port[r])

\* The calls of Run, in the order of its text.
RunOrder ==
    <<"findUnusedPort", "ApplicationFromConfig", "assign", "writeConfig", "Start",
      "waitForAppToStart">>

IsPrefix(s, t) == Len(s) <= Len(t) /\ s = SubSeq(t, 1, Len(s))

Member(x, s) == \E k \in 1 .. Len(s) : s[k] = x

\* C2: the steps of every Run occur in the order allocate port, resolve
\* manifest, record port -> deployId and persist it, launch, await health; the
\* assignment is in the registry before the process is launched, and no health
\* check is attempted unless the launch succeeded.
C2_StepOrder ==
    \A r \in RunIds :
        /\ IsPrefix(steps[r], RunOrder)
        /\ pc[r] \in {"writeConfig", "write", "start", "poll", "sleep"} =>
               /\ config[mgr[r]].state = "up"
               /\ port[r] \in DOMAIN config[mgr[r]].Ports
        /\ proc[r].state # "none" =>
               /\ Member("assign", steps[r])
               /\ Member("writeConfig", steps[r])
        /\ (pc[r] \in {"poll", "sleep"} \/ last[r] # NoResponse
               \/ Member("waitForAppToStart", steps[r])) =>
               proc[r].state # "none"

C2_Witness ==
    \E r \in RunIds :
        /\ pc[r] = "sleep"
        /\ steps[r] = RunOrder
        /\ last[r].kind = "refused"
        /\ proc[r].state = "started"
        /\ config[mgr[r]].Ports[port[r]] = dep[r]

\* The failures of Run after the assignment: the spawn and the health check.
LateErrors == {"SpawnError", "BadStatus", "StartupTimeout"}

\* Run r returns a failure of the spawn or of the health check in this step.
FailsLate(r) ==
    /\ pc[r] \in {"start", "poll"}
    /\ pc'[r] = "done"
    /\ result'[r].kind \in LateErrors

\* The file is a registry in which port p belongs to deploy d.
FileMaps(p, d) ==
    /\ file.kind = "json"
    /\ p \in DOMAIN Unmarshal(file.doc).Ports
    /\ Unmarshal(file.doc).Ports[p] = d

\* The deploy ids that Runs of r's manager given r's port have assigned.
Assigned(r) ==
    {dep[q] : q \in {x \in RunIds : /\ mgr[x] = mgr[r]
                                     /\ port[x] = port[r]
                                     /\ Member("assign", steps[x])}}

\* C3 as stated: when Run fails after step 3, the registry maps the allocated
\* port to the deploy id in memory and in the persisted file, and a started
\* process still exists.
C3_FailureKeepsAssignment ==
    \A r \in RunIds :
        (pc[r] = "done" /\ result[r].kind \in LateErrors) =>
            /\ config[mgr[r]].state = "up"
            /\ port[r] \in DOMAIN config[mgr[r]].Ports
            /\ config[mgr[r]].Ports[port[r]] = dep[r]
            /\ FileMaps(port[r], dep[r])
            /\ result[r].kind # "SpawnError" => proc[r].state # "none"

\* C3 as amended: a failure of the spawn or of the health check rolls nothing
\* back.  The failing step changes neither the registry in memory, nor the
\* file, nor any process; in memory the port has an entry, with the deploy id
\* of this Run or of a concurrent Run of the same manager given the same port;
\* the file holds such an entry for the port when this Run's persist succeeded
\* and no other Run wrote the file; and nothing ever ends a launched process.
C3_NoRollback ==
    [][\A r \in RunIds :
          /\ FailsLate(r) =>
                /\ UNCHANGED <<config, file, proc>>
                /\ config[mgr[r]].state = "up"
                /\ port[r] \in DOMAIN config[mgr[r]].Ports
                /\ config[mgr[r]].Ports[port[r]] \in Assigned(r)
                /\ (/\ persisted[r] = "ok"
                    /\ \A q \in RunIds \ {r} : ~Member("writeConfig", steps[q]))
                       => \E d \in Assigned(r) : FileMaps(port[r], d)
                /\ result'[r].kind # "SpawnError" => proc'[r].state # "none"
          /\ proc[r].state # "none" => proc'[r].state # "none"]_vars

C3_Witness ==
    \E r1, r2 \in RunIds :
        /\ pc[r1] = "done" /\ result[r1].kind = "SpawnError"
        /\ pc[r2] = "done" /\ result[r2].kind = "StartupTimeout"
        /\ proc[r2].state # "none"
        /\ mgr[r1] = mgr[r2] /\ port[r1] = port[r2] /\ dep[r1] # dep[r2]
        /\ config[mgr[r1]].Ports[port[r1]] = dep[r2]
        /\ persisted[r2] = "error"

\* Run r takes a step of its own.
Steps(r) == <<pc[r], port[r]>>' # <<pc[r], port[r]>> /\ pc'[r] # "killed"

\* C4: a Run that fails at port allocation or at manifest resolution has no
\* side effects: up to and including the failure none of its steps changes
\* the registry in memory, the registry file or any process, and it has
\* assigned, persisted and launched nothing.
C4_NoSideEffects ==
    [][\A r \in RunIds :
          /\ (pc[r] \in {"idle", "scan", "manifest"} /\ Steps(r)) =>
                UNCHANGED <<config, file, proc>>
          /\ (pc[r] \in {"scan", "manifest"} /\ pc'[r] = "done") =>
                /\ result'[r].kind \in {"NoFreePort", "ManifestError"}
                /\ proc'[r] = NoProcess
                /\ persisted'[r] = "none"
                /\ ~Member("assign", steps'[r])
                /\ ~Member("writeConfig", steps'[r])]_vars

C4_Witness ==
    \E r1, r2 \in RunIds :
        /\ pc[r1] = "done" /\ result[r1].kind = "NoFreePort"
        /\ pc[r2] = "done" /\ result[r2].kind = "ManifestError"
        /\ proc[r1] = NoProcess /\ proc[r2] = NoProcess
        /\ \A m \in Managers : config[m].Ports = EmptyMap
        /\ file = AbsentFile

\* C5 as stated: a poll whose response is a redirect moves the health checker
\* at once to Failed with reason UnexpectedRedirect, and is not retried,
\* whether or not the deadline has passed.
C5_RedirectFails ==
    [][\A r \in RunIds :
          (pc[r] = "poll" /\ last'[r].kind = "redirect") =>
              /\ pc'[r] = "done"
              /\ result'[r].kind = "UnexpectedRedirect"]_vars

\* C6: an attempt that completes with a status other than 200 makes the
\* health checker fail with that status code, deadline passed or not, and
\* once the checker has returned it makes no attempt any more.
C6_BadStatusIsFinal ==
    [][\A r \in RunIds :
          /\ (pc[r] = "poll" /\ last'[r].kind = "status" /\ last'[r].status # 200) =>
                /\ pc'[r] = "done"
                /\ result'[r] = Returned("BadStatus", last'[r].status)
          /\ (pc[r] = "done" /\ result[r].kind = "BadStatus") =>
                UNCHANGED <<pc[r], last[r], result[r], elapsed[r], steps[r]>>]_vars

C6_Witness ==
    \E r \in RunIds :
        /\ pc[r] = "done"
        /\ result[r] = Returned("BadStatus", 500)
        /\ last[r].status = 500
        /\ elapsed[r] <= MAX_STARTUP_TIME

\* C7: an attempt that fails to complete, by a refused connection or by the
\* per-attempt timeout, is followed by a sleep of the poll interval and
\* another attempt when the deadline has not passed as the failure is
\* observed, and by the failure StartupTimeout when it has passed; it has no
\* other outcome.
C7_ConnectionFailure ==
    [][\A r \in RunIds :
          /\ (pc[r] = "poll" /\ last'[r].kind \in {"refused", "timeout"}) =>
                IF elapsed'[r] <= MAX_STARTUP_TIME
                THEN pc'[r] = "sleep" /\ result'[r] = NoResult
                ELSE pc'[r] = "done" /\ result'[r] = Returned("StartupTimeout", 0)
          /\ (pc[r] = "sleep" /\ pc'[r] \notin {"sleep", "killed"}) =>
                /\ pc'[r] = "poll"
                /\ elapsed'[r] \in Later(elapsed[r], STARTUP_HEALTH_CHECK_INTERVAL)
                /\ result'[r] = NoResult]_vars

C7_Witness ==
    \E r1, r2 \in RunIds :
        /\ pc[r1] = "sleep"
        /\ last[r1].kind = "refused"
        /\ elapsed[r1] <= MAX_STARTUP_TIME
        /\ pc[r2] = "done"
        /\ result[r2].kind = "StartupTimeout"
        /\ last[r2].kind = "timeout"
        /\ elapsed[r2] > MAX_STARTUP_TIME

\* C8: findUnusedPort returns the lowest candidate of 8001..8099 on which the
\* connection fails as it is probed, every lower candidate having accepted
\* one; it returns no port outside [8001, 8100); and it fails exactly when
\* every candidate accepted a connection.
C8_LowestRefusingPort ==
    [][\A r \in RunIds :
          (pc[r] = "scan" /\ Steps(r)) =>
              /\ port[r] \in Ports
              /\ accepted[r] = FirstPort .. (port[r] - 1)
              /\ pc'[r] \in {"scan", "manifest", "done"}
              /\ pc'[r] = "manifest" <=> ~Listening(port[r])
              /\ pc'[r] = "manifest" =>
                    /\ port'[r] = port[r]
                    /\ FirstPort <= port'[r] /\ port'[r] < LimitPort
                    /\ accepted'[r] = FirstPort .. (port'[r] - 1)
              /\ pc'[r] = "scan" =>
                    /\ port'[r] = port[r] + 1
                    /\ accepted'[r] = FirstPort .. port[r]
              /\ pc'[r] = "done" <=> accepted'[r] = Ports
              /\ pc'[r] = "done" =>
                    /\ result'[r] = Returned("NoFreePort", 0)
                    /\ port'[r] = NotRunningPort]_vars

C8_Witness ==
    \E r1, r2 \in RunIds :
        /\ pc[r1] = "manifest"
        /\ port[r1] = FirstPort + 1
        /\ accepted[r1] = {FirstPort}
        /\ ~Listening(port[r1])
        /\ pc[r2] = "done"
        /\ result[r2].kind = "NoFreePort"
        /\ accepted[r2] = Ports

\* Two Runs of one manager have each launched a process for the same port.
Twins(r1, r2) ==
    /\ r1 # r2
    /\ mgr[r1] = mgr[r2]
    /\ proc[r1].state # "none"
    /\ proc[r2].state # "none"
    /\ proc[r1].port = proc[r2].port

\* C9: nothing keeps concurrent Runs apart.  A probe returns its candidate
\* whenever nothing accepts on it at that moment, whatever another Run has
\* been given, has assigned or has launched; so two Runs can launch processes
\* for one port, of which at most one listens, and the registry names for
\* that port the deploy id of only one of the Runs.
C9_NoMutualExclusion ==
    [][/\ \A r \in RunIds :
             (pc[r] = "scan" /\ Steps(r) /\ ~Listening(port[r])) =>
                 pc'[r] = "manifest" /\ port'[r] = port[r]
       /\ \A r1, r2 \in RunIds :
             Twins(r1, r2)' =>
                 /\ ~(proc'[r1].state = "listening" /\ proc'[r2].state = "listening")
                 /\ (/\ config'[mgr[r1]].state = "up"
                     /\ port[r1] \in DOMAIN config'[mgr[r1]].Ports)
                        => config'[mgr[r1]].Ports[port[r1]] \in Assigned(r1)']_vars

C9_Witness ==
    \E r1, r2 \in RunIds :
        /\ Twins(r1, r2)
        /\ port[r1] = port[r2]
        /\ dep[r1] # dep[r2]
        /\ proc[r1].state = "started" /\ proc[r2].state = "started"
        /\ config[mgr[r1]].Ports[port[r1]] = dep[r2]
        /\ FileMaps(port[r1], dep[r2])

\* Runs r1 and r2, of two managers that loaded the registry separately, have
\* each assigned a different port and persisted, and no other Run has assigned.
TwoWriters(r1, r2) ==
    /\ mgr[r1] # mgr[r2]
    /\ persisted[r1] = "ok" /\ persisted[r2] = "ok"
    /\ port[r1] # port[r2]
    /\ config[mgr[r1]].state = "up" /\ config[mgr[r2]].state = "up"
    /\ port[r1] \notin DOMAIN config[mgr[r2]].Ports
    /\ port[r2] \notin DOMAIN config[mgr[r1]].Ports
    /\ \A q \in RunIds \ {r1, r2} : ~Member("assign", steps[q])

\* The file is exactly the registry of manager m.
FileIs(m) == file = JsonFile(Marshal(config[m]))

\* C10 as stated: after two such writers the file equals the registry of one
\* of them, the last to write, and the other's assignment is lost.
C10_LastWriterWins ==
    \A r1, r2 \in RunIds :
        TwoWriters(r1, r2) => (FileIs(mgr[r1]) \/ FileIs(mgr[r2]))

\* C10 as amended: the file equals the registry of one of the writers, without
\* the other's assignment, unless their writes overlapped and the shorter
\* document was written last: then the file is the shorter document followed
\* by the end of the longer one, and it cannot be loaded.
C10_LastWriterOrGarbled ==
    \A r1, r2 \in RunIds :
        TwoWriters(r1, r2) =>
            LET len1 == DocLen(Marshal(config[mgr[r1]]))
                len2 == DocLen(Marshal(config[mgr[r2]]))
            IN  \/ FileIs(mgr[r1]) /\ ~FileMaps(port[r2], dep[r2])
                \/ FileIs(mgr[r2]) /\ ~FileMaps(port[r1], dep[r1])
                \/ /\ len1 # len2
                   /\ file = BadFile(Max(len1, len2))
                   /\ readConfig(file).err

C10_Witness ==
    \E r1, r2 \in RunIds :
        /\ TwoWriters(r1, r2)
        /\ FileIs(mgr[r2])
        /\ FileMaps(port[r2], dep[r2])
        /\ ~FileMaps(port[r1], dep[r1])
        /\ config[mgr[r1]].Ports[port[r1]] = dep[r1]

\* Run r's writeConfig returns an error in this step.
PersistFails(r) == pc[r] \in {"writeConfig", "write"} /\ persisted'[r] = "error"

Registered ==
    UNION {{config[m].Ports[p] : p \in DOMAIN config[m].Ports} : m \in Managers}

RoundTrip(c) ==
    LET back == readConfig(JsonFile(Marshal(c)))
    IN  /\ ~back.err
        /\ back.Ports = c.Ports
        /\ back.Labels = c.Labels
        /\ DOMAIN back.Ports \subseteq Int

\* C13: for every registry that assignments have produced, persisting it and
\* loading the file again yields exactly the same port -> deployId and
\* label -> deployId entries; the integer port keys come back as integers from
\* the string keys of the JSON document.  A manager that starts on the file
\* another one persisted, or found at start, holds that registry.
C13_RegistryRoundTrip ==
    [][/\ \A m \in Managers : config'[m].state = "up" => RoundTrip(config'[m])
       /\ \A m \in Managers :
             (config[m].state = "none" /\ config'[m].state = "up") =>
                 \A c \in {Seeded} \cup {config[w] : w \in Managers} :
                     file = JsonFile(Marshal(c)) =>
                         /\ config'[m].Ports = c.Ports
                         /\ config'[m].Labels = c.Labels]_vars

C13_Witness ==
    \E r \in RunIds, m \in Managers :
        /\ m # mgr[r]
        /\ persisted[r] = "ok"
        /\ FileIs(mgr[r])
        /\ config[m].state = "up"
        /\ config[m].Ports = config[mgr[r]].Ports
        /\ config[m].Labels = config[mgr[r]].Labels
        /\ DOMAIN config[m].Ports = Ports
        /\ config[m].Ports[port[r]] = dep[r]
        /\ DOMAIN config[m].Labels = {"live"}

\* Manager m is constructed in this step.
Loads(m) == config[m].state = "none" /\ config'[m].state = "up"

\* C14: loading never fails on a missing registry file and yields a registry
\* whose two maps are empty; loading a file that exists and is not JSON fails
\* and yields no registry, so that no manager is constructed on it.
C14_LoadMissingOrMalformed ==
    [][/\ readConfig(file).err <=> file.kind = "bad"
       /\ file.kind = "absent" =>
             readConfig(file) = [err |-> FALSE, Ports |-> EmptyMap, Labels |-> EmptyMap]
       /\ \A m \in Managers :
             /\ (config[m].state = "none" /\ file.kind = "bad") =>
                   config'[m] = NoConfig
             /\ (Loads(m) /\ file.kind = "absent") =>
                   /\ config'[m].Ports = EmptyMap
                   /\ config'[m].Labels = EmptyMap]_vars

C14_Witness ==
    \E m1, m2 \in Managers :
        /\ file.kind = "bad"
        /\ readConfig(file).err
        /\ config[m2].state = "none"
        /\ config[m1].state = "up"
        /\ config[m1].Labels = EmptyMap
        /\ \E r \in RunIds : mgr[r] = m1 /\ pc[r] = "write"

\* C15: the deploy id and the path NewDeployDir returns depend on the reading
\* of the clock, to the second, only: two calls at the same second return the
\* same id and the same path, calls at different seconds return different
\* ids, and the id has the form YYYY-MM-DD-HH-MM-SS.
C15_DeployIdBySecond ==
    \A i, j \in 1 .. Len(made) :
        /\ made[i].at = made[j].at =>
               /\ made[i].DeployId = made[j].DeployId
               /\ made[i].Path = made[j].Path
        /\ made[i].at # made[j].at => made[i].DeployId # made[j].DeployId
        /\ Len(made[i].DeployId) = Len("YYYY-MM-DD-HH-MM-SS")
        /\ made[i].Path = PathJoin(Root, deployPath, made[i].DeployId)

C15_Witness ==
    /\ Len(made) = 3
    /\ made[1].at = LastSecondOfDay
    /\ made[2].at = LastSecondOfDay
    /\ made[3].at = LastSecondOfDay + 1
    /\ made[1].DeployId = "2014-03-09-23-59-59"
    /\ made[2].DeployId = "2014-03-09-23-59-59"
    /\ made[2].Path = "root/deploys/2014-03-09-23-59-59"
    /\ made[3].DeployId = "2014-03-10-00-00-00"
    /\ made[3].Path = "root/deploys/2014-03-10-00-00-00"

\* Run r's health check returns the failure StartupTimeout in this step.
TimesOut(r) ==
    pc[r] = "poll" /\ pc'[r] = "done" /\ result'[r].kind = "StartupTimeout"

\* C16 as stated: with the default values, when every attempt fails to
\* complete, more than one attempt is made before the failure StartupTimeout.
C16_SeveralAttempts ==
    \A r \in RunIds :
        (/\ pc[r] = "done"
         /\ result[r].kind = "StartupTimeout"
         /\ last[r].kind \in {"refused", "timeout"}) => attempts[r] > 1

\* C16 as amended: with the default values, when every attempt fails, more
\* than one attempt is made before StartupTimeout if the first attempt fails
\* before the deadline has passed, as a refused connection does; a first
\* attempt that runs into the per-attempt timeout, which is longer than the
\* deadline, ends the health check with StartupTimeout as the only attempt.
C16_AttemptsBeforeTimeout ==
    [][\A r \in RunIds :
          /\ TimesOut(r) =>
                /\ attempts'[r] >= 1
                /\ attempts'[r] = 1 <=> elapsed[r] = 0
                /\ attempts'[r] = 1 => last'[r].kind # "refused"
                /\ last'[r].kind = "refused" => attempts'[r] > 1
          /\ (pc[r] = "poll" /\ attempts[r] = 0 /\ last'[r].kind = "refused") =>
                pc'[r] = "sleep" /\ elapsed'[r] <= MAX_STARTUP_TIME
          /\ (pc[r] = "poll" /\ attempts[r] = 0 /\ last'[r].kind = "timeout") =>
                /\ TimesOut(r)
                /\ attempts'[r] = 1
                /\ elapsed'[r] > MAX_STARTUP_TIME]_vars

C16_Witness ==
    \E r \in RunIds :
        /\ pc[r] = "done"
        /\ result[r].kind = "StartupTimeout"
        /\ last[r].kind = "timeout"
        /\ attempts[r] = 1
        /\ proc[r].state = "listening"

\* C17: the deadline is looked at only after an attempt that failed to
\* complete.  The health check makes at least one attempt before it returns,
\* a response decides the outcome whatever the clock says, and a response with
\* status 200 yields success also when it arrives after the deadline.
C17_DeadlineAfterFailureOnly ==
    [][\A r \in RunIds :
          /\ (pc[r] = "start" /\ pc'[r] = "poll") => attempts'[r] = 0
          /\ (pc[r] \in {"poll", "sleep"} /\ pc'[r] = "done") =>
                /\ pc[r] = "poll"
                /\ attempts'[r] >= 1
          /\ (pc[r] = "poll" /\ Steps(r)) =>
                /\ attempts'[r] >= 1
                /\ result'[r].kind = "StartupTimeout" => last'[r].err
                /\ ~last'[r].err => pc'[r] = "done"
                /\ last'[r] = Healthy(port[r]) =>
                      pc'[r] = "done" /\ result'[r] = Returned("ok", 0)]_vars

C17_Witness ==
    \E r \in RunIds :
        /\ pc[r] = "done"
        /\ result[r].kind = "ok"
        /\ attempts[r] = 1
        /\ elapsed[r] > MAX_STARTUP_TIME
        /\ last[r] = Healthy(port[r])

\* C18: the port allocator never consults the registry and no operation
\* removes a port key.  A probe chooses its port exactly when nothing accepts
\* connections on it, also when the port has a registry entry; every step
\* that leaves the manager running keeps its port keys; and the assignment of a Run
\* overwrites the entry of its port with its own deploy id.  So a registry
\* entry does not imply that the recorded deploy's process uses the port.
C18_AllocatorIgnoresRegistry ==
    [][\A r \in RunIds :
          /\ (pc[r] = "scan" /\ Steps(r)) =>
                /\ (pc'[r] = "manifest" /\ port'[r] = port[r]) <=>
                      ~Listening(port[r])
                /\ UNCHANGED config
          /\ config'[mgr[r]].state = "up" =>
                DOMAIN config[mgr[r]].Ports \subseteq DOMAIN config'[mgr[r]].Ports
          /\ (pc[r] = "assign" /\ Steps(r)) =>
                config'[mgr[r]].Ports[port[r]] = dep[r]]_vars

C18_Witness ==
    \E r1, r2 \in RunIds :
        /\ pc[r1] = "done" /\ result[r1].kind = "StartupTimeout"
        /\ mgr[r1] = mgr[r2] /\ port[r1] = port[r2] /\ dep[r1] # dep[r2]
        /\ pc[r2] \notin {"idle", "scan", "manifest", "assign"}
        /\ config[mgr[r2]].Ports[port[r2]] = dep[r2]
        /\ proc[r1].state = "listening" /\ proc[r1].port = port[r1]

\* The outcomes of the health checker: healthy, or failed on a status or on
\* the deadline.
HealthOutcomes == {"ok", "BadStatus", "StartupTimeout"}

\* C19: when every probe and every health-check attempt completes and the
\* clock advances, every Run invocation eventually returns; the health checker
\* reaches healthy or failed, and no attempt starts later than the startup
\* deadline plus one poll interval.
C19_RunReturns ==
    \A r \in RunIds :
        /\ (pc[r] # "idle") ~> (pc[r] = "done" /\ result[r] # NoResult)
        /\ (pc[r] \in {"poll", "sleep"}) ~>
              (pc[r] = "done" /\ result[r].kind \in HealthOutcomes)
        /\ [](pc[r] = "poll" =>
                elapsed[r] <= MAX_STARTUP_TIME + STARTUP_HEALTH_CHECK_INTERVAL)

C19_Witness ==
    \E r \in RunIds :
        /\ pc[r] = "done"
        /\ result[r].kind = "StartupTimeout"
        /\ last[r].kind = "refused"
        /\ elapsed[r] = MAX_STARTUP_TIME + STARTUP_HEALTH_CHECK_INTERVAL
        /\ attempts[r] = MaxCounted

\* Manager m's entry of port q: its deploy id, or "" when q is not a key.
Entry(cfg, q) == IF q \in DOMAIN cfg.Ports THEN cfg.Ports[q] ELSE ""

\* Run r makes its assignment into the registry.
Assigns(r) == pc[r] = "assign" /\ Steps(r)

\* C20: a Run invocation changes at most one registry entry, the key of the
\* port it allocated.  Its assignment leaves every other entry of every
\* manager as it was and writes a key in 8001..8099, none of its other steps
\* changes a registry, and no operation on a running manager changes an entry
\* other than by such an assignment or changes the labels map.
C20_OneEntryPerRun ==
    [][/\ \A r \in RunIds :
            /\ Assigns(r) =>
                  /\ port[r] \in FirstPort .. (LimitPort - 1)
                  /\ Entry(config'[mgr[r]], port[r]) = dep[r]
                  /\ \A m \in Managers, q \in Ports :
                        (m # mgr[r] \/ q # port[r]) =>
                            Entry(config'[m], q) = Entry(config[m], q)
                  /\ DOMAIN config'[mgr[r]].Ports =
                        DOMAIN config[mgr[r]].Ports \cup {port[r]}
            /\ (Steps(r) /\ pc[r] # "assign") => UNCHANGED config
       /\ \A m \in Managers :
            (config[m].state = "up" /\ config'[m].state = "up") =>
                /\ config'[m].Labels = config[m].Labels
                /\ \A q \in Ports :
                      Entry(config'[m], q) # Entry(config[m], q) =>
                          \E r \in RunIds : Assigns(r) /\ mgr[r] = m /\ port[r] = q]_vars

C20_Witness ==
    \E r \in RunIds :
        /\ pc[r] = "done"
        /\ port[r] # FirstPort
        /\ made # <<>>
        /\ listed.called
        /\ config[mgr[r]].Labels = Seeded.Labels
        /\ DOMAIN Seeded.Labels # {}
        /\ config[mgr[r]].Ports = [q \in {FirstPort, port[r]} |->
                                      IF q = port[r] THEN dep[r]
                                      ELSE Seeded.Ports[FirstPort]]

====
